---- MODULE Spec2Model ----
(***************************************************************************)
(* Model of the quaternion package's conversion layer (src/__init__.py):   *)
(* as_float_array, as_quat_array, as_rotation_matrix, from_rotation_matrix *)
(* and rotate_vectors.                                                     *)
(*                                                                         *)
(* Floats are modelled as exact rationals <<num, den>> in lowest terms     *)
(* with den > 0, so every formula of the source is evaluated exactly as    *)
(* written; rounding is not part of the model.  An array is a record       *)
(*   [dtype, kind, shape, data, base, contiguous]                          *)
(* with data in C (row-major) order, base the identity of the storage the  *)
(* array looks at, and contiguous whether its last axis is contiguous in   *)
(* that storage.  kind distinguishes a Python quaternion scalar from an    *)
(* ndarray, as the source does with isinstance(q, np.ndarray).             *)
(***************************************************************************)
EXTENDS Integers, Sequences, FiniteSets, TLC

VARIABLES input, cur, exc, trail

vars == <<input, cur, exc, trail>>

(***************************************************************************)
(* Bounds of the model.                                                    *)
(***************************************************************************)
MaxComp == 2        \* numerators of the input quaternions are in -MaxComp..MaxComp
MaxLen == 2         \* longest axis of an input quaternion array
NearDen == 32       \* the near-unit inputs have squared norm 1 + 1/NearDen^2
MaxTrail == 9       \* longest trailing axis of an input float array

(***************************************************************************)
(* Exact rational arithmetic standing for Python/NumPy float arithmetic.   *)
(***************************************************************************)
Abs(i) == IF i < 0 THEN -i ELSE i

RECURSIVE Gcd(_, _)
Gcd(a, b) == IF b = 0 THEN a ELSE Gcd(b, a % b)

\* A float division by zero yields inf (<<1, 0>>, <<-1, 0>>) or nan (<<0, 0>>).
Rat(n, d) ==
    IF d = 0 THEN <<IF n < 0 THEN -1 ELSE IF n > 0 THEN 1 ELSE 0, 0>>
    ELSE LET g == Gcd(Abs(n), Abs(d))
             s == IF d < 0 THEN -1 ELSE 1
         IN  <<s * (n \div g), s * (d \div g)>>

Zero == <<0, 1>>
One == <<1, 1>>
Two == <<2, 1>>
Three == <<3, 1>>

RAdd(a, b) == Rat(a[1] * b[2] + b[1] * a[2], a[2] * b[2])
RSub(a, b) == Rat(a[1] * b[2] - b[1] * a[2], a[2] * b[2])
RMul(a, b) == Rat(a[1] * b[1], a[2] * b[2])
RDiv(a, b) == Rat(a[1] * b[2], a[2] * b[1])
RNeg(a) == <<-a[1], a[2]>>
RAbs(a) == <<Abs(a[1]), a[2]>>
RSq(a) == RMul(a, a)
RLt(a, b) == a[1] * b[2] < b[1] * a[2]
RLe(a, b) == a[1] * b[2] <= b[1] * a[2]

(***************************************************************************)
(* Shapes and C-order indexing.                                            *)
(***************************************************************************)
RECURSIVE Prod(_)
Prod(shape) == IF shape = <<>> THEN 1 ELSE Head(shape) * Prod(Tail(shape))

Front(s) == SubSeq(s, 1, Len(s) - 1)
Last(s) == s[Len(s)]

Range(s) == {s[i] : i \in 1..Len(s)}

\* seq[i] with Python's indexing: i from 0, negative i from the end.
PyIndex(seq, i) == seq[IF i < 0 THEN i + Len(seq) + 1 ELSE i + 1]
PySet(seq, i, x) == [seq EXCEPT ![IF i < 0 THEN i + Len(seq) + 1 ELSE i + 1] = x]
InRange(seq, i) == -Len(seq) <= i /\ i < Len(seq)

\* C-order flat index (from 0) of the multi-index idx (from 0) in shape.
RECURSIVE Ravel(_, _)
Ravel(idx, shape) ==
    IF idx = <<>> THEN 0
    ELSE Head(idx) * Prod(Tail(shape)) + Ravel(Tail(idx), Tail(shape))

Unravel(flat, shape) ==
    [k \in 1..Len(shape) |-> (flat \div Prod(SubSeq(shape, k + 1, Len(shape)))) % shape[k]]

\* np.all and np.any of a sequence of booleans.
np_all(flags) == \A i \in 1..Len(flags) : flags[i]
np_any(flags) == \E i \in 1..Len(flags) : flags[i]

None == [dtype |-> "None"]

(***************************************************************************)
(* The quaternion type of numpy_quaternion: components w, x, y, z.         *)
(***************************************************************************)
quaternion(w, x, y, z) == [w |-> w, x |-> x, y |-> y, z |-> z]

zero == quaternion(Zero, Zero, Zero, Zero)
one == quaternion(One, Zero, Zero, Zero)

\* q.norm() and np.norm(q): the sum of the squares of the components.
norm(q) == RAdd(RAdd(RSq(q.w), RSq(q.x)), RAdd(RSq(q.y), RSq(q.z)))

\* The module-wide threshold deciding "basically normalized".
_eps == <<1, 1000>>

\* q.components: the four floats of a quaternion, in storage order.
components(q) == <<q.w, q.x, q.y, q.z>>

(***************************************************************************)
(* NumPy's dtype-changing views, as the source relies on them.             *)
(***************************************************************************)
\* a.view(np.float) on a quaternion array: the last axis grows fourfold;
\* NumPy refuses (ValueError) a 0-d array or a non-contiguous last axis.
view_float(a) ==
    IF a.shape = <<>> \/ ~a.contiguous
    THEN [exc |-> "ValueError", val |-> None]
    ELSE [exc |-> "None",
          val |-> [dtype |-> "float", kind |-> "ndarray",
                   shape |-> Front(a.shape) \o <<4 * Last(a.shape)>>,
                   data |-> [i \in 1..(4 * Len(a.data)) |->
                               components(a.data[((i - 1) \div 4) + 1])[((i - 1) % 4) + 1]],
                   base |-> a.base, contiguous |-> TRUE]]

\* np.atleast_1d(a): a 0-d array is viewed with shape (1,); a Python scalar
\* is first converted into a new array.
atleast_1d(a) ==
    [a EXCEPT !.kind = "ndarray",
              !.shape = IF a.shape = <<>> THEN <<1>> ELSE a.shape,
              !.base = IF a.kind = "scalar" THEN a.base + 1 ELSE a.base]

\* av.reshape(newshape) of a contiguous view: same storage, same order.
reshape(a, newshape) == [a EXCEPT !.shape = newshape]

(***************************************************************************)
(* as_float_array (src/__init__.py 49-65).                                 *)
(***************************************************************************)
as_float_array(a0) ==
    LET a == atleast_1d(a0)
    IN  IF a.dtype # "quaternion"
        THEN [exc |-> "AssertionError", val |-> None]
        ELSE IF a.shape = <<>>
        THEN [exc |-> "None",
              val |-> [dtype |-> "float", kind |-> "ndarray", shape |-> <<4>>,
                       data |-> components(a.data[1]),
                       base |-> a.base, contiguous |-> TRUE]]
        ELSE LET av == view_float(a)
             IN  IF av.exc # "None" THEN av
                 ELSE [exc |-> "None", val |-> reshape(av.val, a.shape \o <<4>>)]

(***************************************************************************)
(* as_rotation_matrix (src/__init__.py 117-169).                           *)
(***************************************************************************)
\* Variant: the sign of the z*w term of m01 flipped.
UnitMatrix_sign(q) ==
    << RSub(One, RMul(Two, RAdd(RSq(q.y), RSq(q.z)))),
       RMul(Two, RAdd(RMul(q.x, q.y), RMul(q.z, q.w))),
       RMul(Two, RAdd(RMul(q.x, q.z), RMul(q.y, q.w))),
       RMul(Two, RAdd(RMul(q.x, q.y), RMul(q.z, q.w))),
       RSub(One, RMul(Two, RAdd(RSq(q.x), RSq(q.z)))),
       RMul(Two, RSub(RMul(q.y, q.z), RMul(q.x, q.w))),
       RMul(Two, RSub(RMul(q.x, q.z), RMul(q.y, q.w))),
       RMul(Two, RAdd(RMul(q.y, q.z), RMul(q.x, q.w))),
       RSub(One, RMul(Two, RAdd(RSq(q.x), RSq(q.y)))) >>

\* Lines 142-146: the formulas for a normalized quaternion.
UnitMatrix(q) ==
    << RSub(One, RMul(Two, RAdd(RSq(q.y), RSq(q.z)))),
       RMul(Two, RSub(RMul(q.x, q.y), RMul(q.z, q.w))),
       RMul(Two, RAdd(RMul(q.x, q.z), RMul(q.y, q.w))),
       RMul(Two, RAdd(RMul(q.x, q.y), RMul(q.z, q.w))),
       RSub(One, RMul(Two, RAdd(RSq(q.x), RSq(q.z)))),
       RMul(Two, RSub(RMul(q.y, q.z), RMul(q.x, q.w))),
       RMul(Two, RSub(RMul(q.x, q.z), RMul(q.y, q.w))),
       RMul(Two, RAdd(RMul(q.y, q.z), RMul(q.x, q.w))),
       RSub(One, RMul(Two, RAdd(RSq(q.x), RSq(q.y)))) >>

\* Lines 148-152: the formulas dividing by n.
GeneralMatrix(q, n) ==
    << RSub(One, RDiv(RMul(Two, RAdd(RSq(q.y), RSq(q.z))), n)),
       RDiv(RMul(Two, RSub(RMul(q.x, q.y), RMul(q.z, q.w))), n),
       RDiv(RMul(Two, RAdd(RMul(q.x, q.z), RMul(q.y, q.w))), n),
       RDiv(RMul(Two, RAdd(RMul(q.x, q.y), RMul(q.z, q.w))), n),
       RSub(One, RDiv(RMul(Two, RAdd(RSq(q.x), RSq(q.z))), n)),
       RDiv(RMul(Two, RSub(RMul(q.y, q.z), RMul(q.x, q.w))), n),
       RDiv(RMul(Two, RSub(RMul(q.x, q.z), RMul(q.y, q.w))), n),
       RDiv(RMul(Two, RAdd(RMul(q.y, q.z), RMul(q.x, q.w))), n),
       RSub(One, RDiv(RMul(Two, RAdd(RSq(q.x), RSq(q.y))), n)) >>

\* Lines 160-168 for one element: f is the element's row q[..., 0..3] of the
\* float view (1-based here), n its entry of np.norm(q).
ElementMatrix(f, n) ==
    << RSub(One, RDiv(RMul(Two, RAdd(RSq(f[3]), RSq(f[4]))), n)),
       RDiv(RMul(Two, RSub(RMul(f[2], f[3]), RMul(f[4], f[1]))), n),
       RDiv(RMul(Two, RAdd(RMul(f[2], f[4]), RMul(f[3], f[1]))), n),
       RDiv(RMul(Two, RAdd(RMul(f[2], f[3]), RMul(f[4], f[1]))), n),
       RSub(One, RDiv(RMul(Two, RAdd(RSq(f[2]), RSq(f[4]))), n)),
       RDiv(RMul(Two, RSub(RMul(f[3], f[4]), RMul(f[2], f[1]))), n),
       RDiv(RMul(Two, RSub(RMul(f[2], f[4]), RMul(f[3], f[1]))), n),
       RDiv(RMul(Two, RAdd(RMul(f[3], f[4]), RMul(f[2], f[1]))), n),
       RSub(One, RDiv(RMul(Two, RAdd(RSq(f[2]), RSq(f[3]))), n)) >>

FloatArray(shape, data, base) ==
    [dtype |-> "float", kind |-> "ndarray", shape |-> shape, data |-> data,
     base |-> base, contiguous |-> TRUE]

\* Variant: the shortcut taken for any squared norm within 1 of 1.
BasicallyNormalized_loose(n) == RLt(RAbs(RSub(n, One)), One)

\* Line 141: abs(n-1.0) < _eps.
BasicallyNormalized(n) == RLt(RAbs(RSub(n, One)), _eps)

\* Variant: np.all in place of np.any.
AnyZeroNorm_all(n) == \A i \in 1..Len(n) : n[i] = Zero

\* Line 155: np.any(n == 0.0).
AnyZeroNorm(n) == \E i \in 1..Len(n) : n[i] = Zero

as_rotation_matrix(q) ==
    IF q.shape = <<>> /\ q.kind # "ndarray"
    THEN LET n == norm(q.data[1])
         IN  IF n = Zero
             THEN [exc |-> "ZeroDivisionError", val |-> None]
             ELSE IF BasicallyNormalized(n)
             THEN [exc |-> "None",
                   val |-> FloatArray(<<3, 3>>, UnitMatrix(q.data[1]), q.base + 1)]
             ELSE [exc |-> "None",
                   val |-> FloatArray(<<3, 3>>, GeneralMatrix(q.data[1], n), q.base + 1)]
    ELSE LET n == [i \in 1..Len(q.data) |-> norm(q.data[i])]
         IN  IF AnyZeroNorm(n)
             THEN [exc |-> "ZeroDivisionError", val |-> None]
             ELSE LET qf == as_float_array(q)
                  IN  IF qf.exc # "None" THEN qf
                      ELSE [exc |-> "None",
                            val |-> FloatArray(q.shape \o <<3, 3>>,
                                      [k \in 1..(9 * Len(q.data)) |->
                                         LET e == ((k - 1) \div 9) + 1
                                             f == SubSeq(qf.val.data, 4 * e - 3, 4 * e)
                                         IN  ElementMatrix(f, n[e])[((k - 1) % 9) + 1]],
                                      q.base + 1)]

(***************************************************************************)
(* Values of the form r / sqrt(s), r and s rational: what dividing by a    *)
(* Euclidean norm produces.  s = 0 stands for a division by a zero norm.   *)
(***************************************************************************)
Surd(r, s) == [r |-> r, s |-> s]
SNeg(a) == Surd(RNeg(a.r), a.s)
Sgn(i) == IF i < 0 THEN -1 ELSE IF i > 0 THEN 1 ELSE 0

\* The float a (a Surd) equals the rational b.
SEqRat(a, b) ==
    /\ a.s # Zero
    /\ Sgn(a.r[1]) = Sgn(b[1])
    /\ RSq(a.r) = RMul(RSq(b), a.s)

\* Two Surds denote the same number.
SEq(a, b) ==
    /\ a.s # Zero /\ b.s # Zero
    /\ Sgn(a.r[1]) = Sgn(b.r[1])
    /\ RMul(RSq(a.r), b.s) = RMul(RSq(b.r), a.s)

(***************************************************************************)
(* Small dense linear algebra on rationals (matrices as rows of rows).     *)
(***************************************************************************)
RECURSIVE RSum(_)
RSum(s) == IF s = <<>> THEN Zero ELSE RAdd(Head(s), RSum(Tail(s)))

Without(s, j) == [i \in 1..(Len(s) - 1) |-> IF i < j THEN s[i] ELSE s[i + 1]]

RECURSIVE ISum(_)
ISum(s) == IF s = <<>> THEN 0 ELSE Head(s) + ISum(Tail(s))

\* Determinant of the submatrix of the integer matrix A with rows rs and
\* columns cs (Laplace expansion along the first row).
RECURSIVE IDet(_, _, _)
IDet(A, rs, cs) ==
    IF rs = <<>> THEN 1
    ELSE ISum([j \in 1..Len(cs) |->
                 IF A[rs[1]][cs[j]] = 0 THEN 0
                 ELSE (IF j % 2 = 1 THEN 1 ELSE -1) * A[rs[1]][cs[j]]
                        * IDet(A, Tail(rs), Without(cs, j))])

RECURSIVE SortedSeq(_)
SortedSeq(S) ==
    IF S = {} THEN <<>>
    ELSE LET m == CHOOSE x \in S : \A y \in S : x <= y
         IN  <<m>> \o SortedSeq(S \ {m})

RECURSIVE LcmAll(_)
LcmAll(s) == IF s = <<>> THEN 1 ELSE LET t == LcmAll(Tail(s)) IN (Head(s) * t) \div Gcd(Head(s), t)

RECURSIVE GcdAll(_)
GcdAll(s) == IF s = <<>> THEN 0 ELSE Gcd(Abs(Head(s)), GcdAll(Tail(s)))

\* A positive multiple of the rational matrix A with integer entries.
IntMatrix(A) ==
    LET n == Len(A)
        l == LcmAll([k \in 1..(n * n) |-> A[((k - 1) \div n) + 1][((k - 1) % n) + 1][2]])
        B == [i \in 1..n |-> [j \in 1..n |-> A[i][j][1] * (l \div A[i][j][2])]]
        g == GcdAll([k \in 1..(n * n) |-> B[((k - 1) \div n) + 1][((k - 1) % n) + 1]])
    IN  IF g = 0 THEN B ELSE [i \in 1..n |-> [j \in 1..n |-> B[i][j] \div g]]

\* A symmetric matrix is positive semidefinite iff all principal minors are >= 0.
PositiveSemidefinite(A) ==
    LET B == IntMatrix(A)
    IN  \A T \in (SUBSET (1..Len(A))) \ {{}} :
            LET idx == SortedSeq(T) IN IDet(B, idx, idx) >= 0

\* Determinant of a square rational matrix.
Det(A) ==
    LET n == Len(A)
        l == LcmAll([k \in 1..(n * n) |-> A[((k - 1) \div n) + 1][((k - 1) % n) + 1][2]])
        B == [i \in 1..n |-> [j \in 1..n |-> A[i][j][1] * (l \div A[i][j][2])]]
        idx == [i \in 1..n |-> i]
        scale[k \in 0..n] == IF k = 0 THEN 1 ELSE l * scale[k - 1]
    IN  Rat(IDet(B, idx, idx), scale[n])

(***************************************************************************)
(* scipy.linalg.eigh(K, eigvals=(3, 3)): a unit eigenvector of the largest *)
(* eigenvalue of the symmetric 4x4 matrix K.  LAPACK does not fix its      *)
(* sign, so eigh(K) is the set of possible return values.  A direction c   *)
(* is accepted iff K c = lam c and lam I - K is positive semidefinite,     *)
(* which is exact for any symmetric K.  The directions tried are those of  *)
(* the columns of 3K + I: when the three lower eigenvalues of K are -1/3,  *)
(* as for the K3 of a rotation matrix, these columns span the eigenspace   *)
(* of the largest eigenvalue.                                              *)
(***************************************************************************)
Lcm(a, b) == (a * b) \div Gcd(a, b)

\* The primitive integer vector in the direction of the rational 4-vector c.
Primitive(c) ==
    LET l == Lcm(Lcm(c[1][2], c[2][2]), Lcm(c[3][2], c[4][2]))
        n == [i \in 1..4 |-> c[i][1] * (l \div c[i][2])]
        g == Gcd(Gcd(Abs(n[1]), Abs(n[2])), Gcd(Abs(n[3]), Abs(n[4])))
    IN  [i \in 1..4 |-> n[i] \div g]

EighDomain(K) ==
    LET cols == {[i \in 1..4 |-> RAdd(RMul(Three, K[i][j]), IF i = j THEN One ELSE Zero)] :
                    j \in 1..4}
        dirs == {Primitive(c) : c \in {d \in cols : \E i \in 1..4 : d[i] # Zero}}
        lead(c) == c[CHOOSE i \in 1..4 : c[i] # 0 /\ \A j \in 1..(i - 1) : c[j] = 0]
    IN  {[i \in 1..4 |-> IF lead(c) < 0 THEN -c[i] ELSE c[i]] : c \in dirs}

MatVec(K, c) == [i \in 1..4 |-> RSum([j \in 1..4 |-> RMul(K[i][j], <<c[j], 1>>)])]

Rayleigh(K, c) ==
    LET Kc == MatVec(K, c)
    IN  RDiv(RSum([i \in 1..4 |-> RMul(Kc[i], <<c[i], 1>>)]),
             RSum([i \in 1..4 |-> <<c[i] * c[i], 1>>]))

IsTopEigenvector(K, c) ==
    LET lam == Rayleigh(K, c)
        Kc == MatVec(K, c)
    IN  /\ \A i \in 1..4 : Kc[i] = RMul(lam, <<c[i], 1>>)
        /\ PositiveSemidefinite(
             [i \in 1..4 |-> [j \in 1..4 |->
                 RSub(IF i = j THEN lam ELSE Zero, K[i][j])]])

eigh(K) ==
    LET top == {d \in EighDomain(K) : IsTopEigenvector(K, d)}
    IN  {[i \in 1..4 |-> Surd(<<s * c[i], 1>>,
                              <<c[1]*c[1] + c[2]*c[2] + c[3]*c[3] + c[4]*c[4], 1>>)] :
            c \in top, s \in {-1, 1}}

(***************************************************************************)
(* as_quat_array (src/__init__.py 69-99).                                  *)
(***************************************************************************)
\* np.ascontiguousarray(a, dtype=np.float): at least 1-d, contiguous; the
\* same storage when a already is a contiguous float ndarray, a copy if not.
ascontiguousarray(a) ==
    [a EXCEPT !.kind = "ndarray",
              !.shape = IF a.shape = <<>> THEN <<1>> ELSE a.shape,
              !.base = IF a.kind = "ndarray" /\ a.contiguous THEN a.base ELSE a.base + 1,
              !.contiguous = TRUE]

\* a.view(np.quaternion) on a float array: four floats of the last axis make
\* one quaternion; NumPy refuses (ValueError) a last axis that is not a
\* whole number of quaternions or is not contiguous.
view_quaternion(a) ==
    IF a.shape = <<>> \/ ~a.contiguous \/ Last(a.shape) % 4 # 0
    THEN [exc |-> "ValueError", val |-> None]
    ELSE [exc |-> "None",
          val |-> [dtype |-> "quaternion", kind |-> "ndarray",
                   shape |-> Front(a.shape) \o <<Last(a.shape) \div 4>>,
                   data |-> [i \in 1..(Len(a.data) \div 4) |->
                               quaternion(a.data[4 * i - 3], a.data[4 * i - 2],
                                          a.data[4 * i - 1], a.data[4 * i])],
                   base |-> a.base, contiguous |-> TRUE]]

\* a.copy(): the same values in new storage.
copy(a) == [a EXCEPT !.base = a.base + 1, !.contiguous = TRUE]

\* Variant: the except branch gives up on the view and returns an empty array.
ViewOrCopy_swallow(a) ==
    LET first == view_quaternion(a)
    IN  IF first.exc = "ValueError"
        THEN [a |-> [copy(a) EXCEPT !.shape = Front(a.shape) \o <<0>>, !.data = <<>>],
              av |-> [exc |-> "None",
                      val |-> [dtype |-> "quaternion", kind |-> "ndarray",
                               shape |-> Front(a.shape) \o <<0>>, data |-> <<>>,
                               base |-> a.base + 1, contiguous |-> TRUE]]]
        ELSE [a |-> a, av |-> first]

\* Lines 88-92: view the array; on ValueError copy it and view the copy.
\* The second view is outside the try: what it raises leaves the function.
ViewOrCopy(a) ==
    LET first == view_quaternion(a)
    IN  IF first.exc = "ValueError"
        THEN [a |-> copy(a), av |-> view_quaternion(copy(a))]
        ELSE [a |-> a, av |-> first]

\* Variant: the trailing axis is always kept.
ViewShape_keep(shape) == Front(shape) \o <<Last(shape) \div 4>>

\* Lines 93-97: the shape the view is given, from the float array's shape.
ViewShape(shape) ==
    IF Last(shape) = 4
    THEN Front(shape)
    ELSE Front(shape) \o <<Last(shape) \div 4>>

as_quat_array(a0) ==
    LET a == ascontiguousarray(a0)
    IN  IF a.shape = <<4>>
        THEN [exc |-> "None",
              val |-> [dtype |-> "quaternion", kind |-> "scalar", shape |-> <<>>,
                       data |-> <<quaternion(a.data[1], a.data[2], a.data[3], a.data[4])>>,
                       base |-> a.base + 1, contiguous |-> TRUE]]
        ELSE LET t == ViewOrCopy(a)
             IN  IF t.av.exc # "None" THEN t.av
                 ELSE [exc |-> "None", val |-> reshape(t.av.val, ViewShape(t.a.shape))]

(***************************************************************************)
(* from_rotation_matrix (src/__init__.py 172-308).                         *)
(***************************************************************************)
\* rot[..., i, j] of one element r (nine floats, row-major), i, j in 0..2.
At(r, i, j) == r[3 * i + j + 1]

\* Lines 226-242: the 4x4 matrix K3 of one element.
K3(r) ==
    LET k01 == RDiv(RAdd(At(r, 1, 0), At(r, 0, 1)), Three)
        k02 == RDiv(RAdd(At(r, 2, 0), At(r, 0, 2)), Three)
        k03 == RDiv(RSub(At(r, 1, 2), At(r, 2, 1)), Three)
        k12 == RDiv(RAdd(At(r, 2, 1), At(r, 1, 2)), Three)
        k13 == RDiv(RSub(At(r, 2, 0), At(r, 0, 2)), Three)
        k23 == RDiv(RSub(At(r, 0, 1), At(r, 1, 0)), Three)
    IN  << << RDiv(RSub(RSub(At(r, 0, 0), At(r, 1, 1)), At(r, 2, 2)), Three), k01, k02, k03 >>,
           << k01, RDiv(RSub(RSub(At(r, 1, 1), At(r, 0, 0)), At(r, 2, 2)), Three), k12, k13 >>,
           << k02, k12, RDiv(RSub(RSub(At(r, 2, 2), At(r, 0, 0)), At(r, 1, 1)), Three), k23 >>,
           << k03, k13, k23, RDiv(RAdd(RAdd(At(r, 0, 0), At(r, 1, 1)), At(r, 2, 2)), Three) >> >>

\* Variant: the vector part not negated.
FromEigvec_unnegated(eigvecs) ==
    << eigvecs[4], eigvecs[1], eigvecs[2], eigvecs[3] >>

\* Lines 247-248 and 255-256: the four floats written from one eigenvector.
FromEigvec(eigvecs) ==
    << eigvecs[4], SNeg(eigvecs[1]), SNeg(eigvecs[2]), SNeg(eigvecs[3]) >>

\* Lines 260-266: the candidates and np.argmax (first index of the maximum).
Diagonals(r) ==
    << At(r, 0, 0), At(r, 1, 1), At(r, 2, 2),
       RAdd(RAdd(At(r, 0, 0), At(r, 1, 1)), At(r, 2, 2)) >>

argmax(d) ==
    (CHOOSE i \in 1..Len(d) :
        /\ \A j \in 1..Len(d) : RLe(d[j], d[i])
        /\ \A j \in 1..(i - 1) : RLt(d[j], d[i])) - 1

\* Lines 269-304: the four floats of one element before normalization.
Branch(r, index) ==
    CASE index = 0 ->
           << RSub(At(r, 2, 1), At(r, 1, 2)),
              RSub(RSub(RAdd(One, At(r, 0, 0)), At(r, 1, 1)), At(r, 2, 2)),
              RAdd(At(r, 0, 1), At(r, 1, 0)),
              RAdd(At(r, 0, 2), At(r, 2, 0)) >>
      [] index = 1 ->
           << RSub(At(r, 0, 2), At(r, 2, 0)),
              RAdd(At(r, 1, 0), At(r, 0, 1)),
              RSub(RAdd(RSub(One, At(r, 0, 0)), At(r, 1, 1)), At(r, 2, 2)),
              RAdd(At(r, 1, 2), At(r, 2, 1)) >>
      [] index = 2 ->
           << RSub(At(r, 1, 0), At(r, 0, 1)),
              RAdd(At(r, 2, 0), At(r, 0, 2)),
              RAdd(At(r, 2, 1), At(r, 1, 2)),
              RAdd(RSub(RSub(One, At(r, 0, 0)), At(r, 1, 1)), At(r, 2, 2)) >>
      [] index = 3 ->
           << RAdd(RAdd(RAdd(One, At(r, 0, 0)), At(r, 1, 1)), At(r, 2, 2)),
              RSub(At(r, 2, 1), At(r, 1, 2)),
              RSub(At(r, 0, 2), At(r, 2, 0)),
              RSub(At(r, 1, 0), At(r, 0, 1)) >>

\* Line 306: q /= np.linalg.norm(q, axis=-1)[..., np.newaxis], one element.
Normalize(u) ==
    LET s == RSum([i \in 1..4 |-> RSq(u[i])])
    IN  [i \in 1..4 |-> Surd(u[i], s)]

Element(rot, e) == SubSeq(rot.data, 9 * e - 8, 9 * e)

\* Variant: np.argmax returning the last index of the maximum.
indices_last(rot, count) ==
    [e \in 1..count |->
        LET d == Diagonals(Element(rot, e))
        IN  (CHOOSE i \in 1..4 : /\ \A j \in 1..4 : RLe(d[j], d[i])
                                 /\ \A j \in (i + 1)..4 : RLt(d[j], d[i])) - 1]

\* Line 266: indices = np.argmax(diagonals, axis=-1), one index per element.
indices(rot, count) == [e \in 1..count |-> argmax(Diagonals(Element(rot, e)))]

\* Lines 269, 278, 287, 296: indices_i = (indices == i).
indices_i(rot, count, i) == [e \in 1..count |-> indices(rot, count)[e] = i]

\* Lines 268-304 from branch i on: q holds four floats per element, at
\* first the candidates (q = diagonals reuses their storage); the branch
\* whose mask is not empty overwrites the elements of its mask.
RECURSIVE FillBranches(_, _, _, _)
FillBranches(rot, count, q, i) ==
    IF i > 3 THEN q
    ELSE LET mask == indices_i(rot, count, i)
         IN  FillBranches(rot, count,
                          IF np_any(mask)
                          THEN [e \in 1..count |->
                                  IF mask[e] THEN Branch(Element(rot, e), i) ELSE q[e]]
                          ELSE q,
                          i + 1)

\* Lines 260-306: the four floats of every element of the direct algorithm.
Direct(rot, count) ==
    LET diagonals == [e \in 1..count |-> Diagonals(Element(rot, e))]
        q == FillBranches(rot, count, diagonals, 0)
    IN  [e \in 1..count |-> Normalize(q[e])]

RECURSIVE Flatten(_)
Flatten(ss) == IF ss = <<>> THEN <<>> ELSE Head(ss) \o Flatten(Tail(ss))

\* np.empty(shape, dtype=np.float): no entry has been written yet.
Uninitialized == [uninitialized |-> TRUE]

empty(shape, base) == FloatArray(shape, [p \in 1..Prod(shape) |-> Uninitialized], base)

\* q[multi_index, 0] = value, multi_index a tuple of integers and value of
\* shape (1,).  A tuple inside an index is an index array along the first
\* axis, broadcast with the integer 0 along the second: the entries written
\* are q[multi_index[k], 0, ...] for every k, over all remaining axes.
setitem_0(q, multi_index, value) ==
    IF \E k \in 1..Len(multi_index) : multi_index[k] >= q.shape[1]
    THEN [exc |-> "IndexError", val |-> None]
    ELSE [exc |-> "None",
          val |-> FloatArray(q.shape,
                             [p \in 1..Len(q.data) |->
                                LET idx == Unravel(p - 1, q.shape)
                                IN  IF idx[2] = 0 /\ idx[1] \in Range(multi_index)
                                    THEN value ELSE q.data[p]],
                             q.base)]

\* q[multi_index, 1:] = value, value of shape (3,).  The target has shape
\* (len(multi_index), q.shape[1]-1) + q.shape[2:]; the value is broadcast
\* along its last axis, which must have length 3, else ValueError.
setitem_1(q, multi_index, value) ==
    LET target == <<Len(multi_index), q.shape[2] - 1>> \o SubSeq(q.shape, 3, Len(q.shape))
    IN  IF \E k \in 1..Len(multi_index) : multi_index[k] >= q.shape[1]
        THEN [exc |-> "IndexError", val |-> None]
        ELSE IF Last(target) # Len(value)
        THEN [exc |-> "ValueError", val |-> None]
        ELSE [exc |-> "None",
              val |-> FloatArray(q.shape,
                                 [p \in 1..Len(q.data) |->
                                    LET idx == Unravel(p - 1, q.shape)
                                        t == IF Len(q.shape) > 2 THEN Last(idx) + 1 ELSE idx[2]
                                    IN  IF idx[2] >= 1 /\ idx[1] \in Range(multi_index)
                                        THEN value[t] ELSE q.data[p]],
                                 q.base)]

\* Lines 252-256 from flat_index on: the possible outcomes of the loop, q
\* being the array filled so far.
RECURSIVE BatchLoop(_, _, _, _)
BatchLoop(rot, shape, q, flat_index) ==
    IF flat_index >= Prod(shape) THEN {[exc |-> "None", val |-> q]}
    ELSE LET multi_index == Unravel(flat_index, shape)
         IN  UNION {LET c == FromEigvec(eigvecs)
                        a == setitem_0(q, multi_index, c[1])
                        b == setitem_1(a.val, multi_index, <<c[2], c[3], c[4]>>)
                    IN  IF a.exc # "None" THEN {a}
                        ELSE IF b.exc # "None" THEN {b}
                        ELSE BatchLoop(rot, shape, b.val, flat_index + 1) :
                      eigvecs \in eigh(K3(Element(rot, flat_index + 1)))}

\* The set of possible outcomes of from_rotation_matrix(rot, nonorthogonal);
\* linalg tells whether scipy.linalg could be imported.
from_rotation_matrix(rot, linalg, nonorthogonal) ==
    LET shape == SubSeq(rot.shape, 1, Len(rot.shape) - 2)
        count == Prod(shape)
    IN  IF linalg /\ nonorthogonal
        THEN IF shape = <<>>
             THEN {[exc |-> "None",
                    val |-> [dtype |-> "quaternion", kind |-> "scalar", shape |-> <<>>,
                             data |-> <<LET c == FromEigvec(v)
                                        IN  quaternion(c[1], c[2], c[3], c[4])>>,
                             base |-> rot.base + 1, contiguous |-> TRUE]] :
                     v \in eigh(K3(Element(rot, 1)))}
             ELSE {IF r.exc = "None" THEN as_quat_array(r.val) ELSE r :
                     r \in BatchLoop(rot, shape, empty(shape \o <<4>>, rot.base + 1), 0)}
        ELSE {as_quat_array(FloatArray(shape \o <<4>>,
                                       Flatten(Direct(rot, count)),
                                       rot.base + 1))}

(***************************************************************************)
(* Inputs.                                                                 *)
(***************************************************************************)
Comps == (-MaxComp)..MaxComp

\* Quaternions with small numerators over the denominators 1, 2 and 3.
GridQuats ==
    {quaternion(Rat(a, d), Rat(b, d), Rat(c, d), Rat(e, d)) :
        a \in Comps, b \in Comps, c \in Comps, e \in Comps, d \in {1, 2, 3}}

\* Quaternions whose squared norm 1 + 1/NearDen^2 is not 1 but within _eps of it.
NearUnitQuats ==
    {quaternion(c[1], c[2], c[3], c[4]) :
        c \in {d \in [1..4 -> {<<-1, 1>>, <<1, 1>>, Zero, <<1, NearDen>>, <<-1, NearDen>>}] :
                 /\ Cardinality({i \in 1..4 : RAbs(d[i]) = One}) = 1
                 /\ Cardinality({i \in 1..4 : RAbs(d[i]) = <<1, NearDen>>}) = 1}}

\* The elements of the input arrays.
ElemPool ==
    { zero, one,
      quaternion(Zero, One, Zero, Zero),
      quaternion(<<1, 2>>, <<1, 2>>, <<-1, 2>>, <<1, 2>>),
      quaternion(<<2, 3>>, <<-2, 3>>, Zero, <<1, 3>>),
      quaternion(One, Zero, <<-2, 1>>, One) }

Shapes ==
    {<<>>} \cup {<<n>> : n \in 1..MaxLen}
           \cup {<<n, 1>> : n \in 1..MaxLen} \cup {<<1, n>> : n \in 1..MaxLen}

QuatScalar(q) ==
    [dtype |-> "quaternion", kind |-> "scalar", shape |-> <<>>, data |-> <<q>>,
     base |-> 1, contiguous |-> TRUE]

QuatArray(shape, data, contiguous) ==
    [dtype |-> "quaternion", kind |-> "ndarray", shape |-> shape, data |-> data,
     base |-> 1, contiguous |-> contiguous]

QuatArrays(contiguous) ==
    UNION {{QuatArray(shape, data, contiguous) : data \in [1..Prod(shape) -> ElemPool]} :
             shape \in Shapes}

RotInputs == {QuatScalar(q) : q \in GridQuats} \cup QuatArrays(TRUE)

PathInputs == RotInputs \cup {QuatScalar(q) : q \in NearUnitQuats}

(***************************************************************************)
(* The calls, as steps from the current value.  trail lists the calls made *)
(* so far; cur is the argument of the next call and the value returned by  *)
(* the last one, exc the exception the last call raised.                   *)
(***************************************************************************)
RotInit ==
    /\ input \in RotInputs
    /\ cur = input
    /\ exc = "None"
    /\ trail = <<>>

Call_as_rotation_matrix ==
    /\ trail = <<>>
    /\ cur.dtype = "quaternion"
    /\ LET r == as_rotation_matrix(cur)
       IN  /\ cur' = r.val
           /\ exc' = r.exc
    /\ trail' = Append(trail, [op |-> "as_rotation_matrix"])
    /\ UNCHANGED input

Call_from_rotation_matrix ==
    /\ Len(trail) = 1 /\ trail[1].op = "as_rotation_matrix"
    /\ exc = "None"
    /\ \E linalg \in BOOLEAN, nonorthogonal \in BOOLEAN :
         /\ \E r \in from_rotation_matrix(cur, linalg, nonorthogonal) :
              /\ cur' = r.val
              /\ exc' = r.exc
         /\ trail' = Append(trail, [op |-> "from_rotation_matrix",
                                    linalg |-> linalg, nonorthogonal |-> nonorthogonal])
    /\ UNCHANGED input

RotNext == Call_as_rotation_matrix \/ Call_from_rotation_matrix

RotSpec == RotInit /\ [][RotNext]_vars

\* The quaternion-to-matrix conversion alone, near-unit inputs included.
PathInit ==
    /\ input \in PathInputs
    /\ cur = input
    /\ exc = "None"
    /\ trail = <<>>

PathNext == Call_as_rotation_matrix

PathSpec == PathInit /\ [][PathNext]_vars

(***************************************************************************)
(* The view bridge: as_float_array and as_quat_array, alone and composed.  *)
(* Inputs are quaternion scalars and arrays, and float arrays; an array    *)
(* with a last axis of two or more entries may be strided (a[..., ::2]).   *)
(***************************************************************************)
StridedQuatArrays ==
    {a \in QuatArrays(FALSE) : a.shape # <<>> /\ Last(a.shape) >= 2}

FloatShapes ==
    {<<>>} \cup {<<t>> : t \in 0..MaxTrail}
           \cup {<<n, t>> : n \in 1..MaxLen, t \in 0..MaxTrail}

\* Float arrays whose entries are 1, 2, 3, ... in storage order.
FloatInput(shape, contiguous) ==
    [dtype |-> "float", kind |-> "ndarray", shape |-> shape,
     data |-> [i \in 1..Prod(shape) |-> <<i, 1>>],
     base |-> 1, contiguous |-> contiguous]

FloatInputs ==
    {FloatInput(shape, TRUE) : shape \in FloatShapes}
    \cup {FloatInput(shape, FALSE) : shape \in {s \in FloatShapes : s # <<>> /\ Last(s) >= 2}}

ViewInputs ==
    {QuatScalar(q) : q \in ElemPool} \cup QuatArrays(TRUE) \cup StridedQuatArrays
    \cup FloatInputs

ViewInit ==
    /\ input \in ViewInputs
    /\ cur = input
    /\ exc = "None"
    /\ trail = <<>>

Call_as_float_array ==
    /\ Len(trail) <= 1
    /\ exc = "None"
    /\ cur.dtype = "quaternion"
    /\ LET r == as_float_array(cur)
       IN  /\ cur' = r.val
           /\ exc' = r.exc
    /\ trail' = Append(trail, [op |-> "as_float_array"])
    /\ UNCHANGED input

Call_as_quat_array ==
    /\ Len(trail) <= 1
    /\ exc = "None"
    /\ cur.dtype = "float"
    /\ LET r == as_quat_array(cur)
       IN  /\ cur' = r.val
           /\ exc' = r.exc
    /\ trail' = Append(trail, [op |-> "as_quat_array"])
    /\ UNCHANGED input

ViewNext == Call_as_float_array \/ Call_as_quat_array

ViewSpec == ViewInit /\ [][ViewNext]_vars

(***************************************************************************)
(* rotate_vectors (src/__init__.py 420-470).                               *)
(***************************************************************************)
SetToSeq(S) ==
    CHOOSE f \in [1..Cardinality(S) -> S] : \A i, j \in 1..Cardinality(S) : i # j => f[i] # f[j]

\* np.einsum(a, a_axes, b, b_axes, out_axes): axes are integer labels; a
\* label absent from out_axes is summed over; an axis of length 1 is
\* broadcast against the label's length, any other mismatch is a ValueError.
einsum(a, a_axes, b, b_axes, out_axes) ==
    LET labels == Range(a_axes) \cup Range(b_axes)
        sizes(l) == {a.shape[k] : k \in {i \in 1..Len(a_axes) : a_axes[i] = l}}
                    \cup {b.shape[k] : k \in {i \in 1..Len(b_axes) : b_axes[i] = l}}
        size(l) == CHOOSE n \in sizes(l) : \A m \in sizes(l) : m <= n
        outshape == [k \in 1..Len(out_axes) |-> size(out_axes[k])]
        summed == SetToSeq(labels \ Range(out_axes))
        terms == Prod([k \in 1..Len(summed) |-> size(summed[k])])
        sumshape == [k \in 1..Len(summed) |-> size(summed[k])]
        Value(l, oi, si) ==
            IF \E k \in 1..Len(out_axes) : out_axes[k] = l
            THEN oi[CHOOSE k \in 1..Len(out_axes) : out_axes[k] = l]
            ELSE si[CHOOSE k \in 1..Len(summed) : summed[k] = l]
        At1(x, axes, oi, si) ==
            x.data[Ravel([k \in 1..Len(axes) |->
                            IF x.shape[k] = 1 THEN 0 ELSE Value(axes[k], oi, si)],
                         x.shape) + 1]
        Entry(o) ==
            LET oi == Unravel(o, outshape)
            IN  RSum([t \in 1..terms |->
                        LET si == Unravel(t - 1, sumshape)
                        IN  RMul(At1(a, a_axes, oi, si), At1(b, b_axes, oi, si))])
    IN  IF \E l \in labels : \E n \in sizes(l) : n # 1 /\ n # size(l)
        THEN [exc |-> "ValueError", val |-> None]
        ELSE [exc |-> "None",
              val |-> FloatArray(outshape, [o \in 1..Prod(outshape) |-> Entry(o - 1)],
                                 a.base + 1)]

\* np.asarray(R, dtype=np.quaternion): a scalar becomes a 0-d array.
asarray(R) ==
    [R EXCEPT !.kind = "ndarray",
              !.base = IF R.kind = "scalar" THEN R.base + 1 ELSE R.base]

\* Variant: the length test looks at the last axis, whatever axis was asked for.
Validate_last(v, axis) ==
    IF Len(v.shape) < 1 \/ 3 \notin Range(v.shape) THEN "ValueError"
    ELSE IF ~InRange(v.shape, axis) THEN "IndexError"
    ELSE IF Last(v.shape) # 3 THEN "ValueError"
    ELSE "None"

\* Lines 459-462: the exception the validation of v raises, "None" if none.
\* v.shape[axis] with an axis outside the dimensions of v is an IndexError.
Validate(v, axis) ==
    IF Len(v.shape) < 1 \/ 3 \notin Range(v.shape) THEN "ValueError"
    ELSE IF ~InRange(v.shape, axis) THEN "IndexError"
    ELSE IF PyIndex(v.shape, axis) # 3 THEN "ValueError"
    ELSE "None"

\* Lines 464-465: list(range(m.ndim)) and list(range(m.ndim, m.ndim+v.ndim)).
m_axes(m) == [k \in 1..Len(m.shape) |-> k - 1]
v_axes0(m, v) == [k \in 1..Len(v.shape) |-> Len(m.shape) + k - 1]

\* Variant: the output takes the matrix's column axis.
mv_axes_column(m, v, axis) ==
    SubSeq(m_axes(m), 1, Len(m.shape) - 2) \o PySet(v_axes0(m, v), axis, PyIndex(m_axes(m), -1))

\* Lines 466-468: the axes of the output.
mv_axes(m, v, axis) ==
    SubSeq(m_axes(m), 1, Len(m.shape) - 2) \o PySet(v_axes0(m, v), axis, PyIndex(m_axes(m), -2))

\* Line 469: the axes of v, the selected one contracted with the matrix's columns.
v_axes(m, v, axis) == PySet(v_axes0(m, v), axis, PyIndex(m_axes(m), -1))

rotate_vectors(R0, v, axis) ==
    LET R == asarray(R0)
        bad == Validate(v, axis)
    IN  IF bad # "None" THEN [exc |-> bad, val |-> None]
        ELSE LET m == as_rotation_matrix(R)
             IN  IF m.exc # "None" THEN m
                 ELSE einsum(m.val, m_axes(m.val), v, v_axes(m.val, v, axis),
                             mv_axes(m.val, v, axis))

(***************************************************************************)
(* Vector rotation: one call of rotate_vectors on inputs R, v and axis.    *)
(***************************************************************************)
RPool ==
    { zero,
      quaternion(<<1, 2>>, <<1, 2>>, <<-1, 2>>, <<1, 2>>),
      quaternion(One, Zero, <<-2, 1>>, One) }

RInputs ==
    {QuatScalar(q) : q \in RPool}
    \cup UNION {{QuatArray(shape, data, TRUE) : data \in [1..Prod(shape) -> RPool]} :
                  shape \in {<<>>} \cup {<<n>> : n \in 1..MaxLen} \cup {<<1, MaxLen>>}}

VShapes ==
    {<<>>} \cup {<<a>> : a \in 1..(MaxLen + 1)}
           \cup {<<a, b>> : a \in 1..(MaxLen + 1), b \in 1..(MaxLen + 1)}
           \cup {<<2, 3, 2>>}

\* Float arrays with the distinct entries -1, 2, 7, 14, ... in storage order.
VInput(shape) ==
    [dtype |-> "float", kind |-> "ndarray", shape |-> shape,
     data |-> [i \in 1..Prod(shape) |-> <<i * i - 2, 1>>],
     base |-> 1, contiguous |-> TRUE]

Axes == (-4)..3

VecInit ==
    /\ input \in {[R |-> R, v |-> VInput(shape), axis |-> axis] :
                    R \in RInputs, shape \in VShapes, axis \in Axes}
    /\ cur = input
    /\ exc = "None"
    /\ trail = <<>>

Call_rotate_vectors ==
    /\ trail = <<>>
    /\ LET r == rotate_vectors(cur.R, cur.v, cur.axis)
       IN  /\ cur' = r.val
           /\ exc' = r.exc
    /\ trail' = Append(trail, [op |-> "rotate_vectors"])
    /\ UNCHANGED input

VecNext == Call_rotate_vectors

VecSpec == VecInit /\ [][VecNext]_vars

(***************************************************************************)
(* allclose.  Floats are the rationals above together with <<1, 0>> (inf), *)
(* <<-1, 0>> (-inf) and <<0, 0>> (nan); the operators below are NumPy's    *)
(* elementwise operations on them.                                         *)
(***************************************************************************)
Inf == <<1, 0>>
NaN == <<0, 0>>

isinf(a) == a[2] = 0 /\ a[1] # 0
isnan(a) == a = NaN

\* x - y
subtract(a, b) ==
    IF isnan(a) \/ isnan(b) THEN NaN
    ELSE IF isinf(a) THEN (IF b = a THEN NaN ELSE a)
    ELSE IF isinf(b) THEN RNeg(b)
    ELSE RSub(a, b)

\* x + y
add(a, b) ==
    IF isnan(a) \/ isnan(b) THEN NaN
    ELSE IF isinf(a) THEN (IF b = RNeg(a) THEN NaN ELSE a)
    ELSE IF isinf(b) THEN b
    ELSE RAdd(a, b)

\* x * y
multiply(a, b) ==
    IF isnan(a) \/ isnan(b) THEN NaN
    ELSE IF isinf(a) \/ isinf(b)
         THEN (IF a[1] = 0 \/ b[1] = 0 THEN NaN ELSE <<Sgn(a[1]) * Sgn(b[1]), 0>>)
    ELSE RMul(a, b)

\* np.less_equal(x, y): FALSE whenever an operand is nan.
less_equal(a, b) ==
    IF isnan(a) \/ isnan(b) THEN FALSE
    ELSE IF a = b THEN TRUE
    ELSE IF isinf(a) THEN a[1] < 0
    ELSE IF isinf(b) THEN b[1] > 0
    ELSE RLe(a, b)

\* x == y on floats: nan equals nothing.
equal(a, b) == ~isnan(a) /\ ~isnan(b) /\ a = b

\* np.array(a, copy=False, ndmin=1), flattened: the elements in storage order.
array_ndmin1(a) == a.data

\* x[mask]: the elements of x where mask is TRUE, in order.
RECURSIVE Masked(_, _)
Masked(x, mask) ==
    IF x = <<>> THEN <<>>
    ELSE (IF Head(mask) THEN <<Head(x)>> ELSE <<>>) \o Masked(Tail(x), Tail(mask))

\* The indices (from 0) a verbose run prints: those where flags is FALSE.
RECURSIVE Failing(_, _)
Failing(flags, i) ==
    IF flags = <<>> THEN <<>>
    ELSE (IF Head(flags) THEN <<>> ELSE <<i>>) \o Failing(Tail(flags), i + 1)

\* Variant: the infinities are compared without their sign.
InfSignsAgree_abs(x, y, xinf) ==
    LET xs == Masked(x, xinf)
        ys == Masked(y, xinf)
    IN  [i \in 1..Len(xs) |-> equal(RAbs(xs[i]), RAbs(ys[i]))]

\* Line 554: x[xinf] == y[xinf].
InfSignsAgree(x, y, xinf) ==
    LET xs == Masked(x, xinf)
        ys == Masked(y, xinf)
    IN  [i \in 1..Len(xs) |-> equal(xs[i], ys[i])]

\* Line 568: np.less_equal(abs(x - y), atol + rtol * abs(y)).
WithinTolerance(x, y, rtol, atol) ==
    [i \in 1..Len(x) |->
        less_equal(RAbs(subtract(x[i], y[i])), add(atol, multiply(rtol, RAbs(y[i]))))]

Bool(val, printed) == [dtype |-> "bool", val |-> val, printed |-> printed]

\* The value returned and what a verbose run printed (tag and indices).
allclose(a, b, rtol, atol, verbose) ==
    LET x == array_ndmin1(a)
        y == array_ndmin1(b)
        xinf == [i \in 1..Len(x) |-> isinf(x[i])]
        yinf == [i \in 1..Len(y) |-> isinf(y[i])]
        same == [i \in 1..Len(x) |-> xinf[i] = yinf[i]]
        signs == InfSignsAgree(x, y, xinf)
        hasinf == np_any(xinf) \/ np_any(yinf)
        notinf == [i \in 1..Len(x) |-> ~xinf[i]]
        x1 == IF hasinf THEN Masked(x, notinf) ELSE x
        y1 == IF hasinf THEN Masked(y, notinf) ELSE y
        lessequal == WithinTolerance(x1, y1, rtol, atol)
        r == np_all(lessequal)
    IN  IF hasinf /\ ~np_all(same)
        THEN Bool(FALSE, IF verbose THEN <<"xinf == yinf">> \o Failing(same, 0) ELSE <<>>)
        ELSE IF hasinf /\ ~np_all(signs)
        THEN Bool(FALSE, IF verbose THEN <<"x[xinf] == y[xinf]">> \o Failing(signs, 0) ELSE <<>>)
        ELSE Bool(r, IF verbose /\ ~r THEN Failing(lessequal, 0) ELSE <<>>)

(***************************************************************************)
(* Comparison: one call of allclose on two float arrays of one shape.      *)
(***************************************************************************)
ClosePool == {One, Two, <<-2, 1>>, Inf, RNeg(Inf), NaN}

CloseShapes == {<<>>} \cup {<<n>> : n \in 1..MaxLen}

CloseArrays(shape) ==
    {FloatArray(shape, data, 1) : data \in [1..Prod(shape) -> ClosePool]}

Tolerances == {Zero, <<1, 2>>}

CloseInit ==
    /\ input \in UNION {[a : CloseArrays(shape), b : CloseArrays(shape),
                         rtol : Tolerances, atol : Tolerances, verbose : BOOLEAN] :
                          shape \in CloseShapes}
    /\ cur = input
    /\ exc = "None"
    /\ trail = <<>>

Call_allclose ==
    /\ trail = <<>>
    /\ cur' = allclose(cur.a, cur.b, cur.rtol, cur.atol, cur.verbose)
    /\ exc' = "None"
    /\ trail' = Append(trail, [op |-> "allclose"])
    /\ UNCHANGED input

CloseNext == Call_allclose

CloseSpec == CloseInit /\ [][CloseNext]_vars

(***************************************************************************)
(* Vocabulary of the properties.                                           *)
(***************************************************************************)
Called(ops) ==
    /\ Len(trail) = Len(ops)
    /\ \A i \in 1..Len(ops) : trail[i].op = ops[i]

Returned(ops) == Called(ops) /\ exc = "None"

IsZeroQuat(q) == q.w = Zero /\ q.x = Zero /\ q.y = Zero /\ q.z = Zero

SqNorm(q) == RSum(<<RMul(q.w, q.w), RMul(q.x, q.x), RMul(q.y, q.y), RMul(q.z, q.z)>>)

IsUnitQuat(q) == SqNorm(q) = One

\* The 3x3 matrix (rows of rows) of element e of a float array of matrices.
Matrix(a, e) == [i \in 1..3 |-> [j \in 1..3 |-> a.data[9 * (e - 1) + 3 * (i - 1) + j]]]

IsOrthogonal(M) ==
    \A i, j \in 1..3 :
        RSum([k \in 1..3 |-> RMul(M[k][i], M[k][j])]) = IF i = j THEN One ELSE Zero

\* The entries the specification gives for q = (w, x, y, z), n its squared norm.
SpecMatrix(q) ==
    LET w == q.w  x == q.x  y == q.y  z == q.z  n == SqNorm(q)
        Off(a, b) == RDiv(RMul(Two, RAdd(a, b)), n)
        Dia(a, b) == RSub(One, RDiv(RMul(Two, RAdd(a, b)), n))
    IN  << << Dia(RMul(y, y), RMul(z, z)), Off(RMul(x, y), RNeg(RMul(z, w))), Off(RMul(x, z), RMul(y, w)) >>,
           << Off(RMul(x, y), RMul(z, w)), Dia(RMul(x, x), RMul(z, z)), Off(RMul(y, z), RNeg(RMul(x, w))) >>,
           << Off(RMul(x, z), RNeg(RMul(y, w))), Off(RMul(y, z), RMul(x, w)), Dia(RMul(x, x), RMul(y, y)) >> >>

(***************************************************************************)
(* C1.  as_rotation_matrix raises ZeroDivisionError for a scalar           *)
(* quaternion of zero norm and for an array in which at least one element  *)
(* has zero norm, whatever the other elements are; the call then returns   *)
(* nothing, not even a partly filled output.                               *)
(***************************************************************************)
C1_ZeroNormRaises ==
    (Called(<<"as_rotation_matrix">>) /\ \E i \in 1..Len(input.data) : IsZeroQuat(input.data[i]))
        => (exc = "ZeroDivisionError" /\ cur = None)

\* An array with a zero-norm element next to a valid one was refused.
C1_Witness ==
    /\ Called(<<"as_rotation_matrix">>)
    /\ input.kind = "ndarray"
    /\ \E i, j \in 1..Len(input.data) :
         IsZeroQuat(input.data[i]) /\ ~IsZeroQuat(input.data[j])
    /\ exc = "ZeroDivisionError"
    /\ cur = None

(***************************************************************************)
(* C2.  For every unit quaternion, through the scalar path and through the *)
(* array path, the matrix returned by as_rotation_matrix has the entries   *)
(* the specification lists and is a proper rotation: its transpose times   *)
(* it is the identity and its determinant is 1.                            *)
(***************************************************************************)
C2_ProperRotation ==
    Returned(<<"as_rotation_matrix">>) =>
        \A e \in 1..Len(input.data) :
            IsUnitQuat(input.data[e]) =>
                /\ Matrix(cur, e) = SpecMatrix(input.data[e])
                /\ IsOrthogonal(Matrix(cur, e))
                /\ Det(Matrix(cur, e)) = One

\* The array path returned the matrix of a unit quaternion with no zero
\* component pair, next to that of another element.
C2_Witness ==
    /\ Returned(<<"as_rotation_matrix">>)
    /\ input.kind = "ndarray"
    /\ Len(input.data) > 1
    /\ \E e \in 1..Len(input.data) :
         /\ IsUnitQuat(input.data[e])
         /\ input.data[e].w # Zero /\ input.data[e].x # Zero /\ input.data[e].z # Zero
         /\ IsOrthogonal(Matrix(cur, e))

(***************************************************************************)
(* C3.  For every unit quaternion q, from_rotation_matrix applied to       *)
(* as_rotation_matrix(q) returns q or -q, with the eigen-based algorithm   *)
(* and with the direct one; the result has norm 1 and the two algorithms   *)
(* agree up to a global sign.                                              *)
(***************************************************************************)
SameQuat(r, q, sign) ==
    /\ SEqRat(r.w, RMul(sign, q.w)) /\ SEqRat(r.x, RMul(sign, q.x))
    /\ SEqRat(r.y, RMul(sign, q.y)) /\ SEqRat(r.z, RMul(sign, q.z))

SameUpToSign(r, q) == SameQuat(r, q, One) \/ SameQuat(r, q, <<-1, 1>>)

SurdSq(a) == RDiv(RSq(a.r), a.s)

HasNormOne(r) == RSum(<<SurdSq(r.w), SurdSq(r.x), SurdSq(r.y), SurdSq(r.z)>>) = One

AgreeUpToSign(r, t) ==
    \/ SEq(r.w, t.w) /\ SEq(r.x, t.x) /\ SEq(r.y, t.y) /\ SEq(r.z, t.z)
    \/ SEq(r.w, SNeg(t.w)) /\ SEq(r.x, SNeg(t.x)) /\ SEq(r.y, SNeg(t.y)) /\ SEq(r.z, SNeg(t.z))

UsedEigen == trail[2].linalg /\ trail[2].nonorthogonal

C3_RoundTrip ==
    Returned(<<"as_rotation_matrix", "from_rotation_matrix">>) =>
        \A e \in 1..Len(input.data) :
            IsUnitQuat(input.data[e]) =>
                /\ SameUpToSign(cur.data[e], input.data[e])
                /\ HasNormOne(cur.data[e])
                /\ \A other \in from_rotation_matrix(as_rotation_matrix(input).val,
                                                     ~UsedEigen, ~UsedEigen) :
                       other.exc = "None" => AgreeUpToSign(cur.data[e], other.val.data[e])

\* The eigen-based algorithm returned -q for a unit quaternion q that is
\* not a basis element.
C3_Witness ==
    /\ Returned(<<"as_rotation_matrix", "from_rotation_matrix">>)
    /\ UsedEigen
    /\ \E e \in 1..Len(input.data) :
         /\ IsUnitQuat(input.data[e])
         /\ input.data[e].w # Zero /\ input.data[e].y # Zero
         /\ SameQuat(cur.data[e], input.data[e], <<-1, 1>>)

(***************************************************************************)
(* C4.  For a single nonzero quaternion, the matrix of the scalar path     *)
(* (division-free formulas when |n - 1| < _eps, dividing ones otherwise)   *)
(* and the matrix of the array path (always dividing) agree entrywise      *)
(* within the tolerance, which is 100 * _eps (1e-12 for _eps = 1e-14).     *)
(***************************************************************************)
Tolerance == RMul(<<100, 1>>, _eps)

ArrayPathMatrix(q) == as_rotation_matrix(QuatArray(<<>>, <<q>>, TRUE)).val

C5_FloatViewShape ==
    (Returned(<<"as_float_array">>) /\ input.dtype = "quaternion") =>
        /\ cur.shape = input.shape \o <<4>>
        /\ \A e \in 1..Len(input.data) :
             SubSeq(cur.data, 4 * e - 3, 4 * e)
                = <<input.data[e].w, input.data[e].x, input.data[e].y, input.data[e].z>>

(***************************************************************************)
(* C6.  For any quaternion array a, as_quat_array(as_float_array(a)) is    *)
(* elementwise equal to a, and when a is contiguous the result looks at    *)
(* the storage of a (no copy was made).                                    *)
(***************************************************************************)
C6_ViewRoundTrip ==
    /\ (Called(<<"as_float_array">>) /\ input.dtype = "quaternion" /\ input.kind = "ndarray")
          => exc = "None"
    /\ (Called(<<"as_float_array", "as_quat_array">>) /\ input.kind = "ndarray")
          => /\ exc = "None"
             /\ cur.data = input.data
             /\ input.contiguous => cur.base = input.base

(***************************************************************************)
(* C7.  as_quat_array turns an input of shape exactly (4,) into the scalar *)
(* quaternion (a[0], a[1], a[2], a[3]); any other input whose trailing     *)
(* axis length t is a positive multiple of 4 gives a quaternion array of   *)
(* shape input_shape[:-1] when t = 4 and input_shape[:-1] + (t/4,)         *)
(* otherwise, whose k-th quaternion along the trailing axis is made of the *)
(* floats 4k..4k+3 of that axis, in the order (w, x, y, z).                *)
(***************************************************************************)
C7_QuatViewShape ==
    (Called(<<"as_quat_array">>) /\ input.dtype = "float" /\ input.shape # <<>>
       /\ Last(input.shape) > 0 /\ Last(input.shape) % 4 = 0) =>
        LET t == Last(input.shape)
            rows == Prod(Front(input.shape))
        IN  /\ exc = "None"
            /\ cur.dtype = "quaternion"
            /\ IF input.shape = <<4>>
               THEN /\ cur.kind = "scalar"
                    /\ cur.shape = <<>>
               ELSE /\ cur.kind = "ndarray"
                    /\ cur.shape = IF t = 4 THEN Front(input.shape)
                                   ELSE Front(input.shape) \o <<t \div 4>>
            /\ Len(cur.data) = rows * (t \div 4)
            /\ \A r \in 0..(rows - 1), k \in 0..((t \div 4) - 1) :
                 LET q == cur.data[r * (t \div 4) + k + 1]
                     f(c) == input.data[r * t + 4 * k + c + 1]
                 IN  q.w = f(0) /\ q.x = f(1) /\ q.y = f(2) /\ q.z = f(3)

\* A two-dimensional input of two quaternions per row was converted.
C7_Witness ==
    /\ Returned(<<"as_quat_array">>)
    /\ Len(input.shape) = 2
    /\ Last(input.shape) = 8
    /\ Head(input.shape) = 2
    /\ cur.shape = <<2, 2>>
    /\ cur.data[4].w = <<13, 1>>

(***************************************************************************)
(* C8.  as_quat_array raises ValueError for every input whose trailing     *)
(* axis length is not a multiple of 4: the fallback (view, copy, view      *)
(* again) neither swallows the error nor returns a result.                 *)
(***************************************************************************)
C8_BadTrailingAxisRaises ==
    (Called(<<"as_quat_array">>) /\ input.dtype = "float" /\ input.shape # <<>>
       /\ Last(input.shape) % 4 # 0) =>
        (exc = "ValueError" /\ cur = None)

\* A two-dimensional input with six floats per row was refused.
C8_Witness ==
    /\ Called(<<"as_quat_array">>)
    /\ input.dtype = "float"
    /\ Len(input.shape) = 2
    /\ Last(input.shape) = 6
    /\ exc = "ValueError"
    /\ cur = None

(***************************************************************************)
(* C9.  rotate_vectors(R, v, axis) returns an array of shape               *)
(* R.shape + v.shape whose entry at index r of R and an index of v with i  *)
(* on the selected axis is the sum over j in {0, 1, 2} of                  *)
(* M(R[r])[i][j] times the entry of v with j on the selected axis, M being *)
(* as_rotation_matrix: every quaternion of R is applied to every vector of *)
(* v, for every valid axis, positive or negative.                          *)
(***************************************************************************)
MatrixOf(q) == Matrix(as_rotation_matrix(QuatArray(<<>>, <<q>>, TRUE)).val, 1)

C9_RotateVectors ==
    Returned(<<"rotate_vectors">>) =>
        LET R == input.R
            v == input.v
            ax == IF input.axis < 0 THEN input.axis + Len(v.shape) + 1 ELSE input.axis + 1
            nv == Prod(v.shape)
        IN  /\ cur.shape = R.shape \o v.shape
            /\ Len(cur.data) = Len(R.data) * nv
            /\ \A r \in 1..Len(R.data), f \in 0..(nv - 1) :
                 LET vi == Unravel(f, v.shape)
                     M == MatrixOf(R.data[r])
                 IN  cur.data[(r - 1) * nv + f + 1]
                       = RSum([j \in 1..3 |->
                                 RMul(M[vi[ax] + 1][j],
                                      v.data[Ravel([k \in 1..Len(v.shape) |->
                                                     IF k = ax THEN j - 1 ELSE vi[k]],
                                                   v.shape) + 1])])

\* Two quaternions were applied to the vectors lying along the first axis
\* of a two-dimensional v, the axis given from the end.
C9_Witness ==
    /\ Returned(<<"rotate_vectors">>)
    /\ Len(input.R.data) = 2
    /\ input.R.data[1] # input.R.data[2]
    /\ input.v.shape = <<3, 2>>
    /\ input.axis = -2
    /\ cur.shape = <<2, 3, 2>>
    /\ SubSeq(cur.data, 1, 6) # input.v.data

Close(a, b, rtol, atol) ==
    /\ ~isnan(a)
    /\ ~isnan(b)
    /\ RLe(RAbs(RSub(a, b)), RAdd(atol, RMul(rtol, RAbs(b))))

C11_AllClose ==
    Returned(<<"allclose">>) =>
        LET a == input.a.data
            b == input.b.data
            I == 1..Len(a)
        IN  /\ cur.val = (/\ \A i \in I : isinf(a[i]) <=> isinf(b[i])
                          /\ \A i \in I : isinf(a[i]) => a[i] = b[i]
                          /\ \A i \in I : ~isinf(a[i]) /\ ~isinf(b[i]) =>
                                 Close(a[i], b[i], input.rtol, input.atol))
            /\ (\E i \in I : isnan(a[i]) \/ isnan(b[i])) => cur.val = FALSE
            /\ cur.val = allclose(input.a, input.b, input.rtol, input.atol,
                                  ~input.verbose).val

\* A verbose call on arrays with a matching infinity first and a pair that
\* is close only through rtol*abs(b) second returned True.
C11_Witness ==
    /\ Returned(<<"allclose">>)
    /\ input.a.data = <<RNeg(Inf), One>>
    /\ input.b.data = <<RNeg(Inf), Two>>
    /\ input.rtol = <<1, 2>>
    /\ input.atol = Zero
    /\ input.verbose
    /\ cur.val = TRUE

(***************************************************************************)
(* C12.  In the eigen-based batch path, for an input of shape S + (3,3)    *)
(* with S of one or more dimensions, each step of the loop writes only the *)
(* four components of the output quaternion at its multi-index, computed   *)
(* from the matrix at that multi-index; after the loop the output has      *)
(* shape S and every element is a solution for its own matrix.             *)
(***************************************************************************)
EigenSolutions(r) ==
    {LET c == FromEigvec(eigvecs) IN quaternion(c[1], c[2], c[3], c[4]) :
        eigvecs \in eigh(K3(r))}

\* The step at flat_index, run on a fresh array, raises nothing and leaves
\* every entry outside element flat_index unwritten.
StepWritesOwnElement(rot, shape, flat_index) ==
    \A eigvecs \in eigh(K3(Element(rot, flat_index + 1))) :
        LET c == FromEigvec(eigvecs)
            multi_index == Unravel(flat_index, shape)
            a == setitem_0(empty(shape \o <<4>>, 1), multi_index, c[1])
            b == setitem_1(a.val, multi_index, <<c[2], c[3], c[4]>>)
        IN  /\ a.exc = "None"
            /\ b.exc = "None"
            /\ \A p \in 1..Len(b.val.data) :
                 b.val.data[p] = IF (p - 1) \div 4 = flat_index
                                 THEN c[((p - 1) % 4) + 1] ELSE Uninitialized

C12_EigenBatchLoop ==
    (/\ Called(<<"as_rotation_matrix", "from_rotation_matrix">>)
     /\ UsedEigen
     /\ Len(input.shape) >= 1) =>
        LET rot == as_rotation_matrix(input).val
            S == input.shape
        IN  /\ \A flat_index \in 0..(Prod(S) - 1) : StepWritesOwnElement(rot, S, flat_index)
            /\ exc = "None"
            /\ cur.shape = S
            /\ \A e \in 1..Prod(S) : cur.data[e] \in EigenSolutions(Element(rot, e))

(***************************************************************************)
(* C13.  In the direct algorithm, for the matrix of any nonzero quaternion *)
(* q = (w,x,y,z) of squared norm n, exactly one branch fills the element:  *)
(* the one at the first index of the maximum of (m00, m11, m22, trace).    *)
(* The component its "1 +- ..." formula writes is 4*max(w2,x2,y2,z2)/n,    *)
(* strictly positive, so the normalization does not divide by zero, and    *)
(* the four floats before normalization are a positive multiple of s*q, s  *)
(* the sign of the component of q of largest magnitude (the first maximal  *)
(* candidate on ties).                                                     *)
(***************************************************************************)
\* The components of q in the order of the candidates m00, m11, m22, trace.
ByCandidate(q) == <<q.x, q.y, q.z, q.w>>

\* The place, in (w, x, y, z), of the "1 +- ..." formula of branch index.
OnePlusPlace(index) == IF index = 3 THEN 1 ELSE index + 2

C13_DirectBranch ==
    (Returned(<<"as_rotation_matrix", "from_rotation_matrix">>) /\ ~UsedEigen) =>
        \A rot \in {as_rotation_matrix(input).val} :
        LET count == Len(input.data)
            diagonals == [e \in 1..count |-> Diagonals(Element(rot, e))]
            u == FillBranches(rot, count, diagonals, 0)
        IN  \A e \in 1..count :
              LET q == input.data[e]
                  n == SqNorm(q)
                  d == diagonals[e]
                  index == indices(rot, count)[e]
                  c == ByCandidate(q)[index + 1]
                  qs == <<q.w, q.x, q.y, q.z>>
              IN  /\ Cardinality({i \in 0..3 : indices_i(rot, count, i)[e]}) = 1
                  /\ \A j \in 1..4 : RLe(d[j], d[index + 1])
                  /\ \A j \in 1..index : RLt(d[j], d[index + 1])
                  /\ u[e] = Branch(Element(rot, e), index)
                  /\ \A j \in 1..4 : RLe(RSq(ByCandidate(q)[j]), RSq(c))
                  /\ \A j \in 1..index : RLt(RSq(ByCandidate(q)[j]), RSq(c))
                  /\ u[e][OnePlusPlace(index)] = RDiv(RMul(<<4, 1>>, RSq(c)), n)
                  /\ RLt(Zero, u[e][OnePlusPlace(index)])
                  /\ \A k \in 1..4 : u[e][k] = RMul(RDiv(RMul(<<4, 1>>, c), n), qs[k])
                  /\ cur.data[e].w.s # Zero
                  /\ LET s == <<Sgn(c[1]), 1>>
                         r == cur.data[e]
                     IN  /\ SEq(r.w, Surd(RMul(s, q.w), n))
                         /\ SEq(r.x, Surd(RMul(s, q.x), n))
                         /\ SEq(r.y, Surd(RMul(s, q.y), n))
                         /\ SEq(r.z, Surd(RMul(s, q.z), n))

\* The direct algorithm ran on the matrix of a quaternion that is not
\* normalized, whose component of largest magnitude is y and is negative:
\* the third branch filled it, with a positive multiple of -q.
C13_Witness ==
    /\ Returned(<<"as_rotation_matrix", "from_rotation_matrix">>)
    /\ ~UsedEigen
    /\ \E e \in 1..Len(input.data) :
         /\ input.data[e] = quaternion(One, Zero, <<-2, 1>>, One)
         /\ indices(as_rotation_matrix(input).val, Len(input.data))[e] = 1
         /\ RLt(Zero, cur.data[e].y.r)
         /\ RLt(cur.data[e].w.r, Zero)

\* Sanity: the eigen solve of every matrix reached has a solution in the model.
EighSolvable ==
    (Len(trail) = 1 /\ exc = "None") =>
        \A e \in 1..(Len(cur.data) \div 9) : eigh(K3(Element(cur, e))) # {}
====
